---- MODULE Spec2Model ----
(***************************************************************************)
(* FlyTeam collector: the crawl engine of flyteam_collector/main.py.       *)
(*                                                                         *)
(* The crawler is one asyncio event loop.  A task runs without             *)
(* interruption from one await to the next, so an action below is code of  *)
(* one task that no await divides.  (Whether the get() of a non-empty      *)
(* queue suspends depends on the Python version, so the head of the worker *)
(* loop and the call of the handler are steps of their own.)               *)
(*                                                                         *)
(* A URL path is the sequence of its segments: "/airline/ana/aircrafts" is *)
(* <<"airline", "ana", "aircrafts">>; a trailing "/" is a trailing ""      *)
(* segment.                                                                *)
(*                                                                         *)
(* Durations are in ticks of a quarter second (Seconds(1) = 4 ticks), so   *)
(* that the base delay of 0.5 s and a jitter from [0, 1) are integers.     *)
(***************************************************************************)
EXTENDS Integers, Sequences, FiniteSets, TLC

VARIABLES
    visited,    \* self._visited: set of URLs
    queue,      \* self._url_queue: sequence of <<url, url_type>>
    shutdown,   \* self._shutdown_event.is_set()
    stats,      \* self._stats
    site,       \* the origin: URL -> what the parsers extract from its page
    db,         \* the registration pages whose data is committed in PostgreSQL
    rows,       \* the committed rows of aircraft_histories and aircraft_aliases
    tx,         \* worker -> the rows its open transaction has written
    seed,       \* run(): <<start_url, start_type>> once the queue is seeded
    main,       \* run(): the statement it is at
    pc,         \* worker -> position in _worker / handler / _fetch
    item,       \* worker -> the <<url, url_type>> it dequeued
    attempt,    \* worker -> loop variable of _fetch
    nreq,       \* worker -> session.get calls made by the current _fetch call
    resps,      \* worker -> the responses the current _fetch call received
    sleeps,     \* worker -> the asyncio.sleep calls of the current _fetch call
    ret,        \* worker -> what the current _fetch call returned
    timer,      \* worker -> ticks left of its asyncio.sleep
    since,      \* worker -> ticks it has slept since the shutdown flag was set
                \*           during a sleep of its _fetch call; -1: it was not
    tvT,        \* URL -> number of _try_visit(url) calls that returned True
    tvF,        \* URL -> number of _try_visit(url) calls that returned False
    put,        \* URL -> number of put_nowait calls for it
    got,        \* URL -> number of times queue.get returned it
    aircrafts,  \* the rows of the table aircrafts, with their three data columns
    log,        \* the Aircraft objects that save_aircraft was called with, in order
    page,       \* the arguments of a parse_aircraft_detail call: target_reg and
                \*   the rows of the tables of the page
    parsed      \* what that call returned

vars == <<visited, queue, shutdown, stats, site, db, rows, tx, seed, main, pc, item, attempt,
          nreq, resps, sleeps, ret, timer, since, tvT, tvF, put, got, aircrafts, log,
          page, parsed>>

frontier == <<visited, queue, tvT, tvF, put>>
fetchv   == <<attempt, nreq, resps, sleeps, ret, timer, since>>
aside    == <<aircrafts, log, page, parsed>>

-----------------------------------------------------------------------------
(* Program constants *)

MAX_ATTEMPTS == 5

\* 0.5 s, in quarter-second ticks
RETRY_BASE_DELAY == 2

Seconds(n) == 4 * n

\* random.uniform(0, 1) = 0 + 1 * random(), random() in [0, 1): 0, .25, .5, .75 s
Jitter == 0 .. (Seconds(1) - 1)

-----------------------------------------------------------------------------
(* Bounds *)

\* --workers: the number of worker tasks run() creates
MaxWorkers == 2

\* the number of direct calls of a handler after which no further one is made
MaxCalls == 3

\* the number of save_aircraft calls in a sequence of saves
MaxSaves == 3

\* the number of table rows of a registration page
MaxRows == 3

-----------------------------------------------------------------------------
(* URL kinds and the origin *)

COUNTRY == "COUNTRY"
AIRLINE == "AIRLINE"
LIST    == "LIST"
DETAIL  == "DETAIL"

None == <<>>

Area  == <<"area", "asia", "airline">>
Ana   == <<"airline", "ana">>
Jal   == <<"airline", "jal", "">>
AnaL  == <<"airline", "ana", "aircrafts">>
AnaL2 == <<"airline", "ana", "aircrafts?pageid=2">>
JalL  == <<"airline", "jal", "aircrafts">>
RegA  == <<"registration", "JA01">>
RegB  == <<"registration", "JA02">>
RegC  == <<"registration", "N703">>

Urls == {Area, Ana, Jal, AnaL, AnaL2, JalL, RegA, RegB, RegC}

\* What the scraper returns for a page: parse_airline_links -> airlines,
\* parse_aircraft_list -> (details, next), parse_aircraft_detail -> aliases.
Page(al, de, nx, ali) == [airlines |-> al, details |-> de, next |-> nx, aliases |-> ali]
Blank == Page(<<>>, <<>>, None, <<>>)

\* one airline, two list pages, registrations that are aliases of each other
SiteAna ==
    [u \in Urls |->
        CASE u = Area  -> Page(<<Ana>>, <<>>, None, <<>>)
          [] u = AnaL  -> Page(<<>>, <<RegA, RegB>>, AnaL2, <<>>)
          [] u = AnaL2 -> Page(<<>>, <<RegB>>, None, <<>>)
          [] u = RegA  -> Page(<<>>, <<>>, None, <<RegB>>)
          [] u = RegB  -> Page(<<>>, <<>>, None, <<RegA>>)
          [] OTHER     -> Blank]

\* two airlines that list the same registration, which has an alias
SiteTwo ==
    [u \in Urls |->
        CASE u = Area  -> Page(<<Ana, Jal>>, <<>>, None, <<>>)
          [] u = AnaL  -> Page(<<>>, <<RegA>>, None, <<>>)
          [] u = JalL  -> Page(<<>>, <<RegA>>, None, <<>>)
          [] u = RegA  -> Page(<<>>, <<>>, None, <<RegC>>)
          [] OTHER     -> Blank]

\* a registration page with two cross-references, one of which refers back
SiteAlias ==
    [u \in Urls |->
        CASE u = RegA  -> Page(<<>>, <<>>, None, <<RegB, RegC>>)
          [] u = RegB  -> Page(<<>>, <<>>, None, <<RegA>>)
          [] OTHER     -> Blank]

\* one list page with one registration, which has a cross-reference
SiteChain ==
    [u \in Urls |->
        CASE u = AnaL  -> Page(<<>>, <<RegA>>, None, <<>>)
          [] u = RegA  -> Page(<<>>, <<>>, None, <<RegB>>)
          [] OTHER     -> Blank]

\* pages without links
SiteOne == [u \in Urls |-> Blank]

Sites == {SiteAna, SiteTwo}

-----------------------------------------------------------------------------
(* The frontier: _try_visit and _enqueue.  F is the frontier part of the   *)
(* state, [visited, queue, tvT, tvF, put], plus ok, the value the last     *)
(* _try_visit returned.                                                    *)

Front == [visited |-> visited, queue |-> queue, tvT |-> tvT, tvF |-> tvF,
          put |-> put, ok |-> FALSE]

\* visited.add(url) left out
TryVisitNoAdd(F, u) ==
    IF u \in F.visited
    THEN [F EXCEPT !.ok = FALSE, !.tvF[u] = @ + 1]
    ELSE [F EXCEPT !.ok = TRUE, !.tvT[u] = @ + 1]

\* a URL that is seen again is taken out of the set
TryVisitEvicts(F, u) ==
    IF u \in F.visited
    THEN [F EXCEPT !.ok = FALSE, !.visited = @ \ {u}, !.tvF[u] = @ + 1]
    ELSE [F EXCEPT !.ok = TRUE, !.visited = @ \cup {u}, !.tvT[u] = @ + 1]

\* _try_visit(url): test and add, with no await in between
TryVisit(F, u) ==
    IF u \in F.visited
    THEN [F EXCEPT !.ok = FALSE, !.tvF[u] = @ + 1]
    ELSE [F EXCEPT !.ok = TRUE, !.visited = @ \cup {u}, !.tvT[u] = @ + 1]

\* put_nowait whatever _try_visit returned
EnqueueAlways(F, u, t) ==
    LET G == TryVisit(F, u)
    IN  [G EXCEPT !.queue = Append(@, <<u, t>>), !.put[u] = @ + 1]

\* put_nowait without _try_visit
EnqueueBlind(F, u, t) ==
    [F EXCEPT !.queue = Append(@, <<u, t>>), !.put[u] = @ + 1]

\* _enqueue(url, url_type)
Enqueue(F, u, t) ==
    LET G == TryVisit(F, u)
    IN  IF G.ok
        THEN [G EXCEPT !.queue = Append(@, <<u, t>>), !.put[u] = @ + 1]
        ELSE G

\* for link in links: self._enqueue(link, url_type), links a sequence of <<url, url_type>>
RECURSIVE EnqueueAll(_, _)
EnqueueAll(F, links) ==
    IF links = <<>> THEN F
    ELSE EnqueueAll(Enqueue(F, Head(links)[1], Head(links)[2]), Tail(links))

SetFront(F) ==
    /\ visited' = F.visited
    /\ queue' = F.queue
    /\ tvT' = F.tvT
    /\ tvF' = F.tvF
    /\ put' = F.put

-----------------------------------------------------------------------------
(* String helpers on segment sequences *)

\* url.rstrip('/')
RECURSIVE RStrip(_)
RStrip(u) ==
    IF u # <<>> /\ u[Len(u)] = "" THEN RStrip(SubSeq(u, 1, Len(u) - 1)) ELSE u

\* '/airline/' in url: a segment "airline" that a "/" follows
HasAirline(u) == \E i \in 1 .. (Len(u) - 1) : u[i] = "airline"

\* '/aircrafts' in url: a segment that starts with "aircrafts"
HasAircrafts(u) == \E i \in 1 .. Len(u) : u[i] \in {"aircrafts", "aircrafts?pageid=2"}

\* the links a handler of kind k enqueues for the page of u, each with the kind
\* the handler gives it, in the order of the calls
Tagged(links, k) == [i \in 1 .. Len(links) |-> <<links[i], k>>]

\* every handler gives the links it finds its own kind
ChildrenOwnKind(S, u, k) ==
    CASE k = COUNTRY -> Tagged(S[u].airlines, COUNTRY)
      [] k = AIRLINE -> << <<Append(RStrip(u), "aircrafts"), AIRLINE>> >>
      [] k = LIST    -> Tagged(S[u].details, LIST)
                        \o (IF S[u].next # None THEN << <<S[u].next, LIST>> >> ELSE <<>>)
      [] k = DETAIL  -> Tagged(S[u].aliases, DETAIL)

Children(S, u, k) ==
    CASE k = COUNTRY -> Tagged(S[u].airlines, AIRLINE)
      [] k = AIRLINE -> << <<Append(RStrip(u), "aircrafts"), LIST>> >>
      [] k = LIST    -> Tagged(S[u].details, DETAIL)
                        \o (IF S[u].next # None THEN << <<S[u].next, LIST>> >> ELSE <<>>)
      [] k = DETAIL  -> Tagged(S[u].aliases, DETAIL)

-----------------------------------------------------------------------------
(* Locals of a worker.  A local that the code no longer reads is set back  *)
(* to its initial value, so that two states differ only in what can still  *)
(* be read.                                                                *)

\* the worker tasks that run() may create, and those it has created
WorkerIds == 1 .. MaxWorkers
Workers == {w \in WorkerIds : pc[w] # "new"}

NoItem == <<None, COUNTRY>>

Url(w)  == item[w][1]
Kind(w) == item[w][2]

\* the locals of _fetch are gone once the handler has tested its result
ForgetFetch(w) ==
    /\ attempt' = [attempt EXCEPT ![w] = 0]
    /\ nreq' = [nreq EXCEPT ![w] = 0]
    /\ resps' = [resps EXCEPT ![w] = <<>>]
    /\ sleeps' = [sleeps EXCEPT ![w] = <<>>]
    /\ ret' = [ret EXCEPT ![w] = ""]
    /\ timer' = [timer EXCEPT ![w] = 0]
    /\ since' = [since EXCEPT ![w] = -1]

\* finally: self._url_queue.task_done(), and back to the head of the loop
TaskDone(w) ==
    /\ pc' = [pc EXCEPT ![w] = "top"]
    /\ item' = [item EXCEPT ![w] = NoItem]

Bump(field) == stats' = [stats EXCEPT ![field] = @ + 1]

-----------------------------------------------------------------------------
(* parse_aircraft_detail.  A row of a .regnumber-table is given by what the  *)
(* parser reads of it: whether it has a registration tag, the text and the   *)
(* href of the tag, and the text of its term cell.  "~" stands for the wave  *)
(* dash between the start and the end of a term.  The serial number and the  *)
(* hex code of the Aircraft are left out.                                    *)

\* _clean(text).upper() and text.strip().upper(), on the texts that occur
Norm(t) ==
    CASE t = "ja01 " -> "JA01"
      [] t = " ja01" -> "JA01"
      [] t = " n703" -> "N703"
      [] OTHER       -> t

\* term_start: the term text, or what stands before the wave dash, cleaned
TermStart(t) ==
    CASE t = "2015/03~2020/01" -> "2015/03"
      [] t = "~2020/01"        -> ""
      [] OTHER                 -> t

Row(tag, text, href, term) == [tag |-> tag, text |-> text, href |-> href, term |-> term]

Terms == {"", "2015/03~2020/01", "~2020/01"}

\* rows without a registration tag, rows whose tag names the target, and rows
\* whose tag has another text or none, with and without an href
RowInputs ==
    {Row(FALSE, "", "", t) : t \in Terms}
    \cup {Row(TRUE, "ja01 ", "/registration/JA01", t) : t \in Terms}
    \cup {Row(TRUE, x, h, "2015/03~2020/01") :
             x \in {"", "N703", " n703"}, h \in {"", "/registration/N703"}}

RECURSIVE SeqsUpTo(_, _)
SeqsUpTo(S, n) ==
    IF n = 0 THEN {<<>>}
    ELSE LET shorter == SeqsUpTo(S, n - 1)
         IN  shorter \cup {Append(q, x) : q \in shorter, x \in S}

Pages == [target : {"JA01", " ja01"}, rows : SeqsUpTo(RowInputs, MaxRows)]

NoPage == [target |-> "", rows |-> <<>>]

Result(reg, hs, as, ls) ==
    [done |-> TRUE, registration_number |-> reg, histories |-> hs, aliases |-> as, links |-> ls]

NotParsed == [done |-> FALSE, registration_number |-> "", histories |-> <<>>,
              aliases |-> <<>>, links |-> <<>>]

\* nothing is taken out of the list
DedupKeepsAll(q) == q

\* unique_aliases and list(dict.fromkeys(alias_links)): the first occurrence
\* of each element, in order
RECURSIVE Dedup(_)
Dedup(q) ==
    IF q = <<>> THEN <<>>
    ELSE LET front == Dedup(SubSeq(q, 1, Len(q) - 1))
             last  == q[Len(q)]
         IN  IF \E i \in DOMAIN front : front[i] = last THEN front ELSE Append(front, last)

\* row_reg = _clean(reg_node.text).upper() if reg_node else target_reg
RowReg(r, target) == IF r.tag THEN Norm(r.text) ELSE target

\* AircraftAlias(base, alias).__post_init__ raises ValueError
AliasInvalid(base, alias) == base = "" \/ alias = "" \/ base = alias

\* the loop over the rows: R is the result so far
RECURSIVE ParseRows(_, _, _)
ParseRows(rs, target, R) ==
    IF rs = <<>> THEN R
    ELSE LET r   == Head(rs)
             reg == RowReg(r, target)
             S   == IF reg # target
                    THEN [R EXCEPT
                            !.aliases = IF AliasInvalid(target, reg) THEN @
                                        ELSE Append(@, [base_registration |-> target,
                                                        alias_registration |-> reg]),
                            !.links = IF r.tag /\ r.href # "" THEN Append(@, r.href) ELSE @]
                    ELSE IF TermStart(r.term) = "" THEN R
                    ELSE [R EXCEPT !.histories =
                            Append(@, [registration_number |-> target,
                                       term_start |-> TermStart(r.term)])]
         IN  ParseRows(Tail(rs), target, S)

ParseAircraftDetail(pg) ==
    LET target == Norm(pg.target)
        R == ParseRows(pg.rows, target, Result(target, <<>>, <<>>, <<>>))
    IN  [R EXCEPT !.aliases = Dedup(@), !.links = Dedup(@)]

\* parse_aircraft_detail(html, target_reg) returns
Parse ==
    /\ ~parsed.done
    /\ page # NoPage
    /\ parsed' = ParseAircraftDetail(page)
    /\ UNCHANGED <<frontier, shutdown, stats, site, db, rows, tx, seed, main, pc, item, fetchv, got>>
    /\ UNCHANGED <<aircrafts, log, page>>

-----------------------------------------------------------------------------
(* __init__ and run(): seeding and worker start-up *)

Zero == [u \in Urls |-> 0]

InitPage(S, P) ==
    /\ visited = {}
    /\ queue = <<>>
    /\ shutdown = FALSE
    /\ stats = [fetched |-> 0, saved |-> 0, skipped |-> 0, fetch_errors |-> 0,
                db_errors |-> 0, airlines |-> 0, list_pages |-> 0,
                alias_crawls |-> 0, http_time_total |-> 0]
    /\ site \in S
    /\ db = {}
    /\ rows = {}
    /\ tx = [w \in WorkerIds |-> <<>>]
    /\ seed = NoItem
    /\ main = "init"
    /\ pc = [w \in WorkerIds |-> "new"]
    /\ item = [w \in WorkerIds |-> NoItem]
    /\ attempt = [w \in WorkerIds |-> 0]
    /\ nreq = [w \in WorkerIds |-> 0]
    /\ resps = [w \in WorkerIds |-> <<>>]
    /\ sleeps = [w \in WorkerIds |-> <<>>]
    /\ ret = [w \in WorkerIds |-> ""]
    /\ timer = [w \in WorkerIds |-> 0]
    /\ since = [w \in WorkerIds |-> -1]
    /\ tvT = Zero
    /\ tvF = Zero
    /\ put = Zero
    /\ got = Zero
    /\ aircrafts = {}
    /\ log = <<>>
    /\ page \in P
    /\ parsed = NotParsed

InitSite(S) == InitPage(S, {NoPage})

Init == InitSite(Sites)

Started == seed # NoItem

\* the elif branches of run() in the other order
StartTypeAirlineFirst(u) ==
    IF HasAirline(u) THEN AIRLINE
    ELSE IF HasAirline(u) /\ HasAircrafts(u) THEN LIST
    ELSE COUNTRY

\* start_type of run(): by the shape of start_url
StartType(u) ==
    IF HasAirline(u) /\ HasAircrafts(u) THEN LIST
    ELSE IF HasAirline(u) THEN AIRLINE
    ELSE COUNTRY

\* start_url = f"/area/{region}/airline"
RegionUrl(region) == <<"area", region, "airline">>

\* run(start_url) with --workers n and --region asia: seed the queue, then
\* create the workers
RunWith(u, n) ==
    /\ ~Started
    /\ LET su == IF u = None THEN RegionUrl("asia") ELSE u
           st == IF u = None THEN COUNTRY ELSE StartType(u)
       IN  /\ seed' = <<su, st>>
           /\ main' = "gather"
           /\ SetFront(Enqueue(Front, su, st))
    /\ pc' = [w \in WorkerIds |-> IF w <= n THEN "top" ELSE "new"]
    /\ UNCHANGED <<shutdown, stats, site, aside, db, rows, tx, item, fetchv, got>>

Run == \E u \in {None, Ana, AnaL} : RunWith(u, MaxWorkers)

\* --start-url: absent, or a path of any shape
StartUrls == {None, Area, Ana, Jal, AnaL, AnaL2, RegA}

RunAny == \E u \in StartUrls : RunWith(u, MaxWorkers)

\* The end of run().  main is "init" before the queue is seeded, "gather" in
\* await asyncio.gather(*workers), "session" while the async with block closes
\* the ClientSession, "pool" in await pool.close(), and "done" after the final
\* report.
ReporterCancelled == main \in {"session", "pool", "done"}
SessionClosing    == main \in {"session", "pool", "done"}
PoolClosing       == main \in {"pool", "done"}
Reported          == main = "done"

Teardown(from, to) ==
    /\ main = from
    /\ main' = to
    /\ UNCHANGED <<frontier, shutdown, stats, site, aside, db, rows, tx, seed, pc, item, fetchv, got>>

\* gather returns although worker tasks are not done
GatherDoneEarly ==
    /\ Teardown("gather", "session")

\* gather returns when every worker task is done; reporter.cancel(), and the
\* async with block is left
GatherDone ==
    /\ \A w \in Workers : pc[w] = "stopped"
    /\ Teardown("gather", "session")

\* the session is closed; await pool.close()
CloseSession == Teardown("session", "pool")

\* the pool is closed; _print_final_report
ClosePool == Teardown("pool", "done")

\* _handle_shutdown: the signal handler, run by the event loop between tasks
HandleShutdown ==
    /\ Started
    /\ ~shutdown
    /\ shutdown' = TRUE
    /\ since' = [w \in WorkerIds |-> IF pc[w] = "sleep" THEN 0 ELSE since[w]]
    /\ UNCHANGED <<visited, queue, stats, site, aside, db, rows, tx, seed, main, pc, item, attempt,
                   nreq, resps, sleeps, ret, timer, tvT, tvF, put, got>>

-----------------------------------------------------------------------------
(* _fetch *)

\* the loop stops one attempt early
MoreAttemptsShort(a) == a + 1 < MAX_ATTEMPTS

\* for attempt in range(MAX_ATTEMPTS)
MoreAttempts(a) == a < MAX_ATTEMPTS

\* 2 ** attempt
RECURSIVE Pow2(_)
Pow2(a) == IF a = 0 THEN 1 ELSE 2 * Pow2(a - 1)

\* the delay does not grow with the attempt
BackoffFlat(a, j) == RETRY_BASE_DELAY + j

\* RETRY_BASE_DELAY * (2 ** attempt) + random.uniform(0, 1)
Backoff(a, j) == RETRY_BASE_DELAY * Pow2(a) + j

\* int(x) of a number of ticks: whole seconds, the fraction cut off
Trunc(t) == t \div Seconds(1)

\* the Retry-After header of a 429: absent, or its text
NoHeader   == [has |-> FALSE, text |-> ""]
Header(s)  == [has |-> TRUE, text |-> s]
RetryAfterHeaders == {NoHeader, Header("3"), Header("Wed, 21 Oct 2026 07:28:00 GMT")}

\* int(s) of a string raises ValueError unless s is a decimal number
IsDecimal(s) == s \in {"0", "1", "3"}
ParseInt(s) == CASE s = "0" -> 0 [] s = "1" -> 1 [] s = "3" -> 3

\* int(resp.headers.get("Retry-After", RETRY_BASE_DELAY * (2 ** attempt))), in seconds
RetryAfter(h, a) ==
    IF h.has THEN ParseInt(h.text) ELSE Trunc(RETRY_BASE_DELAY * Pow2(a))

\* a response of status class st with Retry-After header h
Resp(st, h) == [st |-> st, retry_after |-> h]

\* the counter that the end of the loop increments
ExhaustedAsSkipped == "skipped"
Exhausted == "fetch_errors"

\* The head of the retry loop with loop variable a, n requests sent so far:
\* the loop is over, or the shutdown flag is seen, or the next request is sent.
LoopHead(w, a, n) ==
    /\ attempt' = [attempt EXCEPT ![w] = a]
    /\ IF ~MoreAttempts(a)
       THEN /\ Bump(Exhausted)
            /\ ret' = [ret EXCEPT ![w] = ""]
            /\ pc' = [pc EXCEPT ![w] = "fetched"]
            /\ nreq' = [nreq EXCEPT ![w] = n]
       ELSE IF shutdown
       THEN /\ ret' = [ret EXCEPT ![w] = ""]
            /\ pc' = [pc EXCEPT ![w] = "fetched"]
            /\ nreq' = [nreq EXCEPT ![w] = n]
            /\ stats' = stats
       ELSE /\ ret' = [ret EXCEPT ![w] = ""]
            /\ pc' = [pc EXCEPT ![w] = "inflight"]
            /\ nreq' = [nreq EXCEPT ![w] = n + 1]
            /\ stats' = stats

\* the response (or the transport error) r has arrived
Received(w, r) == resps' = [resps EXCEPT ![w] = Append(@, r)]

\* elapsed = time.monotonic() - t0 of a request that was answered, in ticks
Latency == {1, 2}

\* the text is returned, and only the time is counted
Resp2xxUncounted(w) ==
    /\ pc[w] = "inflight"
    /\ Received(w, Resp("2xx", NoHeader))
    /\ \E e \in Latency :
          stats' = [stats EXCEPT !.http_time_total = @ + e]
    /\ ret' = [ret EXCEPT ![w] = "html"]
    /\ pc' = [pc EXCEPT ![w] = "fetched"]
    /\ UNCHANGED <<frontier, shutdown, site, aside, db, rows, tx, seed, main, item, attempt, nreq, sleeps,
                   timer, since, got>>

\* resp.status < 300: the text is returned
Resp2xx(w) ==
    /\ pc[w] = "inflight"
    /\ Received(w, Resp("2xx", NoHeader))
    /\ \E e \in Latency :
          stats' = [stats EXCEPT !.fetched = @ + 1, !.http_time_total = @ + e]
    /\ ret' = [ret EXCEPT ![w] = "html"]
    /\ pc' = [pc EXCEPT ![w] = "fetched"]
    /\ UNCHANGED <<frontier, shutdown, site, aside, db, rows, tx, seed, main, item, attempt, nreq, sleeps,
                   timer, since, got>>

\* no sleep after the attempt that no other follows
SleepNotAfterLast(w, r, d) ==
    /\ Received(w, r)
    /\ IF attempt[w] + 1 < MAX_ATTEMPTS
       THEN /\ sleeps' = [sleeps EXCEPT ![w] = Append(@, d)]
            /\ timer' = [timer EXCEPT ![w] = d]
            /\ pc' = [pc EXCEPT ![w] = "sleep"]
            /\ UNCHANGED <<stats, attempt, nreq, ret>>
       ELSE /\ LoopHead(w, attempt[w] + 1, nreq[w])
            /\ UNCHANGED <<sleeps, timer>>
    /\ UNCHANGED <<frontier, shutdown, site, aside, db, rows, tx, seed, main, item, since, got>>

\* await asyncio.sleep(d) after the response r
Sleep(w, r, d) ==
    /\ Received(w, r)
    /\ sleeps' = [sleeps EXCEPT ![w] = Append(@, d)]
    /\ timer' = [timer EXCEPT ![w] = d]
    /\ pc' = [pc EXCEPT ![w] = "sleep"]
    /\ UNCHANGED <<frontier, shutdown, stats, site, aside, db, rows, tx, seed, main, item, attempt, nreq, ret,
                   since, got>>

\* resp.status == 429 with a Retry-After that int() accepts, or without one
Resp429(w) ==
    /\ pc[w] = "inflight"
    /\ \E h \in RetryAfterHeaders :
          /\ h.has => IsDecimal(h.text)
          /\ Sleep(w, Resp("429", h), Seconds(RetryAfter(h, attempt[w])))

\* the ValueError ends the worker
Resp429BadHeaderStops(w) ==
    /\ pc[w] = "inflight"
    /\ \E h \in RetryAfterHeaders : h.has /\ ~IsDecimal(h.text)
    /\ ForgetFetch(w)
    /\ pc' = [pc EXCEPT ![w] = "stopped"]
    /\ item' = [item EXCEPT ![w] = NoItem]
    /\ UNCHANGED <<frontier, shutdown, stats, site, aside, db, rows, tx, seed, main, got>>

\* the ValueError is caught by a handler that counts it as a db_error
Resp429BadHeaderCounted(w) ==
    /\ pc[w] = "inflight"
    /\ \E h \in RetryAfterHeaders : h.has /\ ~IsDecimal(h.text)
    /\ Bump("db_errors")
    /\ ForgetFetch(w)
    /\ TaskDone(w)
    /\ UNCHANGED <<frontier, shutdown, site, aside, db, rows, tx, seed, main, got>>

\* resp.status == 429 with a Retry-After that int() rejects: the ValueError is no
\* ClientError, leaves _fetch and the handler, and is caught in _worker
Resp429BadHeader(w) ==
    /\ pc[w] = "inflight"
    /\ \E h \in RetryAfterHeaders : h.has /\ ~IsDecimal(h.text)
    /\ ForgetFetch(w)
    /\ TaskDone(w)
    /\ UNCHANGED <<frontier, shutdown, stats, site, aside, db, rows, tx, seed, main, got>>

\* resp.status >= 500
Resp5xx(w) ==
    /\ pc[w] = "inflight"
    /\ \E j \in Jitter : Sleep(w, Resp("5xx", NoHeader), Backoff(attempt[w], j))

\* aiohttp.ClientError or asyncio.TimeoutError
TransportError(w) ==
    /\ pc[w] = "inflight"
    /\ \E j \in Jitter : Sleep(w, Resp("err", NoHeader), Backoff(attempt[w], j))

\* a 4xx is slept on and tried again, like a 5xx
Resp4xxRetried(w) ==
    /\ pc[w] = "inflight"
    /\ \E j \in Jitter : Sleep(w, Resp("4xx", NoHeader), Backoff(attempt[w], j))

\* a 4xx is counted as a skip and as a fetch error
Resp4xxAsError(w) ==
    /\ pc[w] = "inflight"
    /\ Received(w, Resp("4xx", NoHeader))
    /\ stats' = [stats EXCEPT !.skipped = @ + 1, !.fetch_errors = @ + 1]
    /\ ret' = [ret EXCEPT ![w] = ""]
    /\ pc' = [pc EXCEPT ![w] = "fetched"]
    /\ UNCHANGED <<frontier, shutdown, site, aside, db, rows, tx, seed, main, item, attempt, nreq, sleeps,
                   timer, since, got>>

\* any other status (4xx)
Resp4xx(w) ==
    /\ pc[w] = "inflight"
    /\ Received(w, Resp("4xx", NoHeader))
    /\ Bump("skipped")
    /\ ret' = [ret EXCEPT ![w] = ""]
    /\ pc' = [pc EXCEPT ![w] = "fetched"]
    /\ UNCHANGED <<frontier, shutdown, site, aside, db, rows, tx, seed, main, item, attempt, nreq, sleeps,
                   timer, since, got>>

\* a tick of the sleep passes; asyncio.sleep looks at no flag
Tick(w) ==
    /\ pc[w] = "sleep"
    /\ timer[w] > 0
    /\ timer' = [timer EXCEPT ![w] = @ - 1]
    /\ since' = [since EXCEPT ![w] = IF @ >= 0 THEN @ + 1 ELSE @]
    /\ UNCHANGED <<frontier, shutdown, stats, site, aside, db, rows, tx, seed, main, pc, item, attempt, nreq,
                   resps, sleeps, ret, got>>

\* the rest of the sleep passes: the next iteration of the loop
WakeUp(w) ==
    /\ pc[w] = "sleep"
    /\ timer' = [timer EXCEPT ![w] = 0]
    /\ since' = [since EXCEPT ![w] = IF @ >= 0 THEN @ + timer[w] ELSE @]
    /\ LoopHead(w, attempt[w] + 1, nreq[w])
    /\ UNCHANGED <<frontier, shutdown, site, aside, db, rows, tx, seed, main, item, resps, sleeps, got>>

-----------------------------------------------------------------------------
(* _worker *)

\* self._url_queue.get() returns the oldest item
Dequeue(w) ==
    /\ queue # <<>>
    /\ item' = [item EXCEPT ![w] = Head(queue)]
    /\ queue' = Tail(queue)
    /\ got' = [got EXCEPT ![Head(queue)[1]] = @ + 1]
    /\ pc' = [pc EXCEPT ![w] = "handle"]
    /\ UNCHANGED <<visited, tvT, tvF, put, shutdown, stats, site, aside, db, rows, tx, seed, main, fetchv>>

\* timeout=5.0 of the wait for the queue: the interval at which a waiting worker
\* looks at the flag again
DequeueTimeout == Seconds(5)

\* the loop head of w ignores the flag
StopOnShutdownNever(w) == FALSE /\ UNCHANGED vars

\* if self._shutdown_event.is_set(): break
StopOnShutdown(w) ==
    /\ pc[w] = "top"
    /\ shutdown
    /\ pc' = [pc EXCEPT ![w] = "stopped"]
    /\ UNCHANGED <<frontier, shutdown, stats, site, aside, db, rows, tx, seed, main, item, fetchv, got>>

\* the queue holds an item: get() returns it
GetItem(w) ==
    /\ pc[w] = "top"
    /\ ~shutdown
    /\ Dequeue(w)

\* the queue is empty: get() suspends the worker
Block(w) ==
    /\ pc[w] = "top"
    /\ ~shutdown
    /\ queue = <<>>
    /\ pc' = [pc EXCEPT ![w] = "waiting"]
    /\ UNCHANGED <<frontier, shutdown, stats, site, aside, db, rows, tx, seed, main, item, fetchv, got>>

\* a task that has left its loop takes an item all the same
WakeStopped(w) ==
    /\ pc[w] \in {"waiting", "stopped"}
    /\ Dequeue(w)

\* an item was put while the worker was suspended in get()
Wake(w) ==
    /\ pc[w] = "waiting"
    /\ Dequeue(w)

\* continue on every timeout
TimeoutBreaksNever(q) == FALSE

\* break on every timeout
TimeoutBreaksAlways(q) == TRUE

\* except asyncio.TimeoutError: if self._url_queue.empty(): break
TimeoutBreaks(q) == q = <<>>

\* break only when the queue is empty and no other worker is in a handler,
\* as the comment in the except clause has it
TimeoutBarrier(w) ==
    /\ pc[w] = "waiting"
    /\ pc' = [pc EXCEPT ![w] =
                IF queue = <<>> /\ \A v \in Workers : pc[v] \in {"top", "waiting", "stopped"}
                THEN "stopped" ELSE "top"]
    /\ UNCHANGED <<frontier, shutdown, stats, site, aside, db, rows, tx, seed, main, item, fetchv, got>>

\* wait_for gave up after 5 s; an item may have been put at that very moment
Timeout(w) ==
    /\ pc[w] = "waiting"
    /\ pc' = [pc EXCEPT ![w] = IF TimeoutBreaks(queue) THEN "stopped" ELSE "top"]
    /\ UNCHANGED <<frontier, shutdown, stats, site, aside, db, rows, tx, seed, main, item, fetchv, got>>

-----------------------------------------------------------------------------
(* The handlers.  Each returns into the finally clause of _worker and from *)
(* there to the head of its loop.                                          *)

\* _process_airline: no fetch, one LIST item
ProcessAirline(w) ==
    /\ pc[w] = "handle"
    /\ Kind(w) = AIRLINE
    /\ SetFront(EnqueueAll(Front, Children(site, Url(w), AIRLINE)))
    /\ TaskDone(w)
    /\ UNCHANGED <<shutdown, stats, site, aside, db, rows, tx, seed, main, fetchv, got>>

\* _process_country, _process_list, _process_detail: html = await self._fetch(url)
CallFetch(w) ==
    /\ pc[w] = "handle"
    /\ Kind(w) # AIRLINE
    /\ resps' = [resps EXCEPT ![w] = <<>>]
    /\ sleeps' = [sleeps EXCEPT ![w] = <<>>]
    /\ LoopHead(w, 0, 0)
    /\ UNCHANGED <<frontier, shutdown, site, aside, db, rows, tx, seed, main, item, timer, since, got>>

\* the URL whose fetch gave nothing is put back into the queue
FetchedNothingRequeue(w) ==
    /\ pc[w] = "fetched"
    /\ ret[w] = ""
    /\ queue' = Append(queue, item[w])
    /\ ForgetFetch(w)
    /\ TaskDone(w)
    /\ UNCHANGED <<visited, tvT, tvF, put, shutdown, stats, site, aside, db, rows, tx, seed, main, got>>

\* if not html: return
FetchedNothing(w) ==
    /\ pc[w] = "fetched"
    /\ ret[w] = ""
    /\ ForgetFetch(w)
    /\ TaskDone(w)
    /\ UNCHANGED <<frontier, shutdown, stats, site, aside, db, rows, tx, seed, main, got>>

\* _process_country with the page
ProcessCountry(w) ==
    /\ pc[w] = "fetched"
    /\ ret[w] = "html"
    /\ Kind(w) = COUNTRY
    /\ stats' = [stats EXCEPT !.airlines = @ + Len(site[Url(w)].airlines)]
    /\ SetFront(EnqueueAll(Front, Children(site, Url(w), COUNTRY)))
    /\ ForgetFetch(w)
    /\ TaskDone(w)
    /\ UNCHANGED <<shutdown, site, aside, db, rows, tx, seed, main, got>>

\* the next page is not followed
ProcessListNoNext(w) ==
    /\ pc[w] = "fetched"
    /\ ret[w] = "html"
    /\ Kind(w) = LIST
    /\ Bump("list_pages")
    /\ SetFront(EnqueueAll(Front, Tagged(site[Url(w)].details, DETAIL)))
    /\ ForgetFetch(w)
    /\ TaskDone(w)
    /\ UNCHANGED <<shutdown, site, aside, db, rows, tx, seed, main, got>>

\* _process_list with the page
ProcessList(w) ==
    /\ pc[w] = "fetched"
    /\ ret[w] = "html"
    /\ Kind(w) = LIST
    /\ Bump("list_pages")
    /\ SetFront(EnqueueAll(Front, Children(site, Url(w), LIST)))
    /\ ForgetFetch(w)
    /\ TaskDone(w)
    /\ UNCHANGED <<shutdown, site, aside, db, rows, tx, seed, main, got>>

\* the operating histories that parse_aircraft_detail extracts from a page
HistoriesOf(u) ==
    CASE u = RegA -> <<"ana 2015/03", "jal 2020/01">>
      [] u = RegB -> <<"ana 2018/07">>
      [] OTHER    -> <<>>

\* The conn.execute calls of save_aircraft_data for the page of u, in their
\* order: save_aircraft, save_aircraft_history for each history,
\* save_aircraft_alias for each alias
Writes(S, u) ==
    << <<"aircrafts", u>> >>
    \o [i \in 1 .. Len(HistoriesOf(u)) |-> <<"aircraft_histories", u, HistoriesOf(u)[i]>>]
    \o [i \in 1 .. Len(S[u].aliases) |-> <<"aircraft_aliases", u, S[u].aliases[i]>>]

\* the rows of aircrafts (by their key) and of the other tables among ws
MasterRows(ws) == {ws[i][2] : i \in {j \in DOMAIN ws : ws[j][1] = "aircrafts"}}
ChildRows(ws) == {ws[i] : i \in {j \in DOMAIN ws : ws[j][1] # "aircrafts"}}

\* SQL NULL, Python None
Null == "NULL"

\* the Aircraft objects a page can give: a registration with or without a
\* serial number and a hex code
AircraftInputs ==
    [registration_number : {"JA01", "JA02"},
     serial_number : {Null, "34567", "40001"},
     hex_code : {Null, "84C068"}]

\* EXCLUDED.col replaces the stored value, NULL or not
CoalesceOverwrite(new, old) == new

\* COALESCE(EXCLUDED.col, aircrafts.col)
Coalesce(new, old) == IF new # Null THEN new ELSE old

\* save_aircraft: INSERT ... ON CONFLICT(registration_number) DO UPDATE on the
\* table T, whose primary key is registration_number
SaveAircraft(T, a) ==
    IF \E r \in T : r.registration_number = a.registration_number
    THEN {IF r.registration_number = a.registration_number
          THEN [r EXCEPT !.serial_number = Coalesce(a.serial_number, @),
                         !.hex_code = Coalesce(a.hex_code, @)]
          ELSE r : r \in T}
    ELSE T \cup {a}

\* await repo.save_aircraft(conn, a), committed
CallSaveAircraft(a) ==
    /\ Len(log) < MaxSaves
    /\ aircrafts' = SaveAircraft(aircrafts, a)
    /\ log' = Append(log, a)
    /\ UNCHANGED <<frontier, shutdown, stats, site, db, rows, tx, seed, main, pc, item, fetchv, got>>
    /\ UNCHANGED <<page, parsed>>

\* save_aircraft_data: the rows of one registration, upserted in one
\* transaction on a connection of its own; it commits when the block is left
\* without an exception, and otherwise leaves the tables as they were
SaveAircraftData(D, u) == D \cup {u}

\* each conn.execute is committed on its own, without conn.transaction()
SaveWriteAutocommit(w) ==
    /\ pc[w] = "persist"
    /\ Len(tx[w]) < Len(Writes(site, Url(w)))
    /\ LET row == Writes(site, Url(w))[Len(tx[w]) + 1]
       IN  /\ tx' = [tx EXCEPT ![w] = Append(@, row)]
           /\ db' = db \cup MasterRows(<<row>>)
           /\ rows' = rows \cup ChildRows(<<row>>)
    /\ UNCHANGED <<frontier, shutdown, stats, site, aside, seed, main, pc, item, fetchv, got>>

\* the next conn.execute of save_aircraft_data, inside the transaction
SaveWrite(w) ==
    /\ pc[w] = "persist"
    /\ Len(tx[w]) < Len(Writes(site, Url(w)))
    /\ tx' = [tx EXCEPT ![w] = Append(@, Writes(site, Url(w))[Len(tx[w]) + 1])]
    /\ UNCHANGED <<frontier, shutdown, stats, site, aside, db, rows, seed, main, pc, item, fetchv, got>>

\* pool.acquire, a conn.execute or the commit raises: the transaction is rolled
\* back, and the except clause of _process_detail counts the error
SaveRaises(w) ==
    /\ pc[w] = "persist"
    /\ tx' = [tx EXCEPT ![w] = <<>>]
    /\ Bump("db_errors")
    /\ TaskDone(w)
    /\ UNCHANGED <<frontier, shutdown, site, aside, db, rows, seed, main, fetchv, got>>

\* the alias links are enqueued as soon as the parser has returned them
ParseDetailEnqueues(w) ==
    /\ pc[w] = "fetched"
    /\ ret[w] = "html"
    /\ Kind(w) = DETAIL
    /\ pc' = [pc EXCEPT ![w] = "persist"]
    /\ SetFront(EnqueueAll(Front, Children(site, Url(w), DETAIL)))
    /\ ForgetFetch(w)
    /\ UNCHANGED <<shutdown, stats, site, aside, db, rows, tx, seed, main, item, got>>

\* _process_detail with the page: parse_aircraft_detail returns, and
\* save_aircraft_data is awaited
ParseDetail(w) ==
    /\ pc[w] = "fetched"
    /\ ret[w] = "html"
    /\ Kind(w) = DETAIL
    /\ pc' = [pc EXCEPT ![w] = "persist"]
    /\ ForgetFetch(w)
    /\ UNCHANGED <<frontier, shutdown, stats, site, aside, db, rows, tx, seed, main, item, got>>

\* parse_aircraft_detail raises: except Exception
ParseRaises(w) ==
    /\ pc[w] = "fetched"
    /\ ret[w] = "html"
    /\ Kind(w) = DETAIL
    /\ Bump("db_errors")
    /\ ForgetFetch(w)
    /\ TaskDone(w)
    /\ UNCHANGED <<frontier, shutdown, site, aside, db, rows, tx, seed, main, got>>

\* the alias links are not followed
PersistOkNoAlias(w) ==
    /\ pc[w] = "persist"
    /\ stats' = [stats EXCEPT !.saved = @ + 1,
                              !.alias_crawls = @ + Len(site[Url(w)].aliases)]
    /\ tx[w] = <<>>
    /\ db' = SaveAircraftData(db, Url(w))
    /\ rows' = rows \cup ChildRows(Writes(site, Url(w)))
    /\ TaskDone(w)
    /\ UNCHANGED <<frontier, shutdown, site, aside, tx, seed, main, fetchv, got>>

\* save_aircraft_data returned: count it, then enqueue the alias links
PersistOk(w) ==
    /\ pc[w] = "persist"
    /\ stats' = [stats EXCEPT !.saved = @ + 1,
                              !.alias_crawls = @ + Len(site[Url(w)].aliases)]
    /\ SetFront(EnqueueAll(Front, Children(site, Url(w), DETAIL)))
    /\ tx[w] = <<>>
    /\ db' = SaveAircraftData(db, Url(w))
    /\ rows' = rows \cup ChildRows(Writes(site, Url(w)))
    /\ TaskDone(w)
    /\ UNCHANGED <<shutdown, site, aside, tx, seed, main, fetchv, got>>

\* the exception leaves the handler and the worker
PersistRaisesStops(w) ==
    /\ pc[w] = "persist"
    /\ pc' = [pc EXCEPT ![w] = "stopped"]
    /\ item' = [item EXCEPT ![w] = NoItem]
    /\ UNCHANGED <<frontier, shutdown, stats, site, aside, db, rows, tx, seed, main, fetchv, got>>

\* the alias links are enqueued although the save raised
PersistRaisesThenLinks(w) ==
    /\ pc[w] = "persist"
    /\ tx[w] = <<>>
    /\ Bump("db_errors")
    /\ SetFront(EnqueueAll(Front, Children(site, Url(w), DETAIL)))
    /\ TaskDone(w)
    /\ UNCHANGED <<shutdown, site, aside, db, rows, tx, seed, main, fetchv, got>>

\* the failure of one save fails the saves of the other workers with it
PersistRaisesAll(w) ==
    /\ pc[w] = "persist"
    /\ stats' = [stats EXCEPT !.db_errors =
                     @ + Cardinality({v \in WorkerIds : pc[v] = "persist"})]
    /\ pc' = [v \in WorkerIds |-> IF pc[v] = "persist" THEN "top" ELSE pc[v]]
    /\ item' = [v \in WorkerIds |-> IF pc[v] = "persist" THEN NoItem ELSE item[v]]
    /\ UNCHANGED <<frontier, shutdown, site, aside, db, rows, tx, seed, main, fetchv, got>>

\* every row is written: the transaction commits, save_aircraft_data returns,
\* and the handler counts the save and enqueues the alias links
SaveCommits(w) ==
    /\ pc[w] = "persist"
    /\ tx[w] = Writes(site, Url(w))
    /\ db' = db \cup MasterRows(tx[w])
    /\ rows' = rows \cup ChildRows(tx[w])
    /\ tx' = [tx EXCEPT ![w] = <<>>]
    /\ stats' = [stats EXCEPT !.saved = @ + 1,
                              !.alias_crawls = @ + Len(site[Url(w)].aliases)]
    /\ SetFront(EnqueueAll(Front, Children(site, Url(w), DETAIL)))
    /\ TaskDone(w)
    /\ UNCHANGED <<shutdown, site, aside, seed, main, fetchv, got>>

\* save_aircraft_data raised: except Exception
PersistRaises(w) ==
    /\ pc[w] = "persist"
    /\ tx[w] = <<>>
    /\ Bump("db_errors")
    /\ TaskDone(w)
    /\ UNCHANGED <<frontier, shutdown, site, aside, db, rows, tx, seed, main, fetchv, got>>

-----------------------------------------------------------------------------
(* Specifications *)

\* the worker loop without a shutdown
Drain(w) ==
    \/ GetItem(w)
    \/ Block(w)
    \/ Wake(w)
    \/ Timeout(w)

\* the handlers when every fetch, parse and save succeeds
Crawl(w) ==
    \/ ProcessAirline(w)
    \/ CallFetch(w)
    \/ Resp2xx(w)
    \/ ProcessCountry(w)
    \/ ProcessList(w)
    \/ ParseDetail(w)
    \/ PersistOk(w)

\* The crawl with the faults that are not retried, and the shutdown signal
Next ==
    \/ Run
    \/ HandleShutdown
    \/ \E w \in WorkerIds :
          \/ Drain(w)
          \/ Crawl(w)
          \/ StopOnShutdown(w)
          \/ Resp4xx(w)
          \/ FetchedNothing(w)
          \/ ParseRaises(w)
          \/ PersistRaises(w)

Spec == Init /\ [][Next]_vars

\* save_aircraft called on its own, one call after the other
NextUpsert == \E a \in AircraftInputs : CallSaveAircraft(a)

SpecUpsert == InitSite({SiteOne}) /\ [][NextUpsert]_vars

\* parse_aircraft_detail called on its own, on every page of up to MaxRows rows
InitParse == InitPage({SiteOne}, Pages)

SpecParse == InitParse /\ [][Parse]_vars

\* The crawl of an origin that answers 2xx, or 429 with a Retry-After header
\* that int() rejects, with no shutdown signal
NextBadHeader == Run \/ \E w \in WorkerIds : Drain(w) \/ Crawl(w) \/ Resp429BadHeader(w)

SpecBadHeader == Init /\ [][NextBadHeader]_vars

\* the whole of run(), to its return
NextRun ==
    \/ Next
    \/ GatherDone
    \/ CloseSession
    \/ ClosePool

SpecRun == Init /\ [][NextRun]_vars

\* The crawl of a site whose fetches, parses and saves all succeed, with no
\* shutdown signal
NextStub == Run \/ \E w \in WorkerIds : Drain(w) \/ Crawl(w)

SpecStub == Init /\ [][NextStub]_vars

\* The event loop runs every task that can run: run() itself, and each worker
StubStep(w) == Drain(w) \/ Crawl(w)

SpecStubFair ==
    /\ SpecStub
    /\ WF_vars(Run)
    /\ \A w \in WorkerIds : WF_vars(StubStep(w))

\* The crawl of a site whose fetches and parses succeed and whose saves can
\* fail, with no shutdown signal
NextPersist == Run \/ \E w \in WorkerIds : Drain(w) \/ Crawl(w) \/ PersistRaises(w)

SpecPersist == Init /\ [][NextPersist]_vars

\* The crawl with every kind of fault: an origin that answers 2xx, 4xx or 429,
\* with a Retry-After header that int() may reject, parses and saves that may
\* raise, and the shutdown signal
Faulty(w) ==
    \/ Resp4xx(w)
    \/ Resp429(w)
    \/ Resp429BadHeader(w)
    \/ WakeUp(w)
    \/ FetchedNothing(w)
    \/ ParseRaises(w)
    \/ PersistRaises(w)

NextFaults ==
    \/ Run
    \/ HandleShutdown
    \/ \E w \in WorkerIds : Drain(w) \/ Crawl(w) \/ StopOnShutdown(w) \/ Faulty(w)

InitFaults == InitSite({SiteChain})

SpecFaults == InitFaults /\ [][NextFaults]_vars

\* The event loop runs every task that can run, every request ends within
\* REQUEST_TIMEOUT, every sleep ends, every wait for the queue ends within its
\* timeout, and the save returns or raises
WorkerStep(w) == Drain(w) \/ Crawl(w) \/ StopOnShutdown(w) \/ Faulty(w)

SpecFaultsFair ==
    /\ SpecFaults
    /\ WF_vars(Run)
    /\ \A w \in WorkerIds : WF_vars(WorkerStep(w))

\* One worker fetching one page from an origin that answers in every way
InitFetch == InitSite({SiteOne})

RunOne == RunWith(None, 1)

NextFetch ==
    \/ RunOne
    \/ HandleShutdown
    \/ \E w \in WorkerIds :
          \/ GetItem(w)
          \/ Block(w)
          \/ Timeout(w)
          \/ StopOnShutdown(w)
          \/ CallFetch(w)
          \/ Resp2xx(w)
          \/ Resp429(w)
          \/ Resp429BadHeader(w)
          \/ Resp5xx(w)
          \/ TransportError(w)
          \/ Resp4xx(w)
          \/ WakeUp(w)
          \/ FetchedNothing(w)
          \/ ProcessCountry(w)

SpecFetch == InitFetch /\ [][NextFetch]_vars

\* One worker fetching one page from an origin that answers 429 every time,
\* with the time of the backoff sleeps passing tick by tick
NextSleep ==
    \/ RunOne
    \/ HandleShutdown
    \/ \E w \in WorkerIds :
          \/ GetItem(w)
          \/ Block(w)
          \/ Timeout(w)
          \/ StopOnShutdown(w)
          \/ CallFetch(w)
          \/ Resp429(w)
          \/ Tick(w)
          \/ WakeUp(w)
          \/ FetchedNothing(w)

SpecSleep == InitFetch /\ [][NextSleep]_vars

\* _process_detail called on its own, as often as MaxCalls allows: a task that
\* is in no handler calls it with the URL of a registration page
Calls == stats.fetched + stats.skipped

CallDetail(w, u) ==
    /\ pc[w] \in {"new", "top"}
    /\ Calls < MaxCalls
    /\ item' = [item EXCEPT ![w] = <<u, DETAIL>>]
    /\ pc' = [pc EXCEPT ![w] = "handle"]
    /\ UNCHANGED <<frontier, shutdown, stats, site, aside, db, rows, tx, seed, main, fetchv, got>>

InitDetail == InitSite({SiteAlias, SiteAna})

NextDetail ==
    \E w \in WorkerIds :
        \/ \E u \in {RegA, RegB} : CallDetail(w, u)
        \/ CallFetch(w)
        \/ Resp2xx(w)
        \/ Resp4xx(w)
        \/ FetchedNothing(w)
        \/ ParseDetail(w)
        \/ ParseRaises(w)
        \/ PersistOk(w)
        \/ PersistRaises(w)

SpecDetail == InitDetail /\ [][NextDetail]_vars

\* the fault-free crawl from any start URL
NextStart ==
    \/ RunAny
    \/ \E w \in WorkerIds :
          \/ Drain(w)
          \/ Crawl(w)

SpecStart == Init /\ [][NextStart]_vars

\* _process_detail called on its own, with save_aircraft_data statement by
\* statement
NextSave ==
    \E w \in WorkerIds :
        \/ \E u \in {RegA, RegB} : CallDetail(w, u)
        \/ CallFetch(w)
        \/ Resp2xx(w)
        \/ ParseDetail(w)
        \/ SaveWrite(w)
        \/ SaveRaises(w)
        \/ SaveCommits(w)

SpecSave == InitDetail /\ [][NextSave]_vars

-----------------------------------------------------------------------------
(* Properties of the frontier *)

QueueUrls == {queue[i][1] : i \in DOMAIN queue}

\* the workers that hold a dequeued item
Handling == {w \in WorkerIds : item[w] # NoItem}

AllStopped == Started /\ \A w \in Workers : pc[w] = "stopped"

\* C1: of all _try_visit calls made with one URL, in any interleaving of the
\* workers, exactly one returned True and every other one returned False; the
\* URL is in the visited set from that call on.
C1_OneAdmission ==
    \A u \in Urls :
        /\ tvT[u] + tvF[u] > 0 => tvT[u] = 1
        /\ u \in visited <=> tvT[u] = 1

\* _try_visit was called three times with one URL while a worker holds an item
C1_Witness ==
    \E u \in Urls : tvT[u] = 1 /\ tvF[u] >= 2 /\ Handling # {}

C2_State ==
    /\ \A u \in Urls : put[u] <= 1
    /\ \A i, j \in DOMAIN queue : i # j => queue[i][1] # queue[j][1]
    /\ QueueUrls \subseteq visited
    /\ \A w \in Handling : Url(w) \in visited

C2_Step ==
    \A u \in Urls :
        /\ (u \in visited' /\ u \notin visited) <=> put'[u] = put[u] + 1
        /\ put'[u] # put[u] => u \in {queue'[i][1] : i \in DOMAIN queue'}

\* C2: no URL is put on the queue more than once, however many pages link to
\* it; every URL in the queue or held by a worker is in the visited set; and a
\* URL enters the visited set in the very step that puts it on the queue.
C2_EnqueuedOnce == [](C2_State) /\ [][C2_Step]_vars

\* a URL that three pages link to has been enqueued and dequeued
C2_Witness ==
    \E u \in Urls : put[u] = 1 /\ tvF[u] >= 2 /\ got[u] = 1

\* C3: when queue.get returns a URL, a _try_visit call for that URL has
\* returned True before.
C3_AdmittedBeforeDequeued ==
    [][\A u \in Urls : got'[u] # got[u] => tvT[u] >= 1]_vars

\* a URL found by a handler (not the seed) has been dequeued
C3_Witness ==
    \E w \in WorkerIds : pc[w] = "handle" /\ Url(w) # seed[1] /\ got[Url(w)] = 1

-----------------------------------------------------------------------------
(* Properties of the crawl of a site without faults *)

Range(f) == {f[i] : i \in DOMAIN f}

\* the items reachable from the items R by the links the handlers follow
RECURSIVE Reach(_, _)
Reach(S, R) ==
    LET T == R \cup UNION {Range(Children(S, r[1], r[2])) : r \in R}
    IN  IF T = R THEN R ELSE Reach(S, T)

Reachable == {r[1] : r \in Reach(site, {seed})}

\* C4: without faults and without a shutdown signal, once every worker has
\* stopped, each URL reachable from the seed was dequeued exactly once, no
\* other URL was dequeued, and the queue is empty; at no time was a URL
\* dequeued twice.
C4_EachReachableOnce ==
    /\ \A u \in Urls : got[u] <= 1
    /\ AllStopped =>
          /\ queue = <<>>
          /\ Handling = {}
          /\ \A u \in Urls : got[u] = (IF u \in Reachable THEN 1 ELSE 0)

\* the pool has stopped after a crawl of at least six pages
C4_Witness ==
    AllStopped /\ Cardinality(Reachable) >= 6 /\ visited = Reachable

\* C5: without faults and without a shutdown signal, under fair scheduling of
\* the tasks, every worker eventually stops.
C5_PoolTerminates == <>AllStopped

\* the pool has stopped although several pages link to one URL
C5_Witness ==
    AllStopped /\ \E u \in Urls : tvF[u] >= 2

-----------------------------------------------------------------------------
(* Properties of _fetch *)

\* the _fetch call of w has returned
Returned(w) == pc[w] = "fetched"

\* every response of the current _fetch call of w was of a class in C
AllOf(w, C) == resps[w] # <<>> /\ \A i \in DOMAIN resps[w] : resps[w][i].st \in C

Transient == {"429", "5xx", "err"}

\* C6: a _fetch call that saw no shutdown flag and whose every response was a
\* 5xx has sent exactly MAX_ATTEMPTS requests when it returns, and returns
\* empty; no call sends more than MAX_ATTEMPTS requests.
C6_ExactlyMaxAttempts ==
    \A w \in WorkerIds :
        /\ nreq[w] <= MAX_ATTEMPTS
        /\ (Returned(w) /\ ~shutdown /\ AllOf(w, {"5xx"})) =>
              /\ nreq[w] = MAX_ATTEMPTS
              /\ Len(resps[w]) = MAX_ATTEMPTS
              /\ ret[w] = ""

\* a _fetch call returned after five 5xx responses
C6_Witness ==
    \E w \in WorkerIds :
        Returned(w) /\ ~shutdown /\ AllOf(w, {"5xx"}) /\ Len(resps[w]) = 5

\* C7 as claimed: when every response is a 5xx, each backoff delay is at least
\* the one before it, whatever the jitter.
C7_DelaysNonDecreasing ==
    \A w \in WorkerIds :
        AllOf(w, {"5xx"}) =>
            \A i \in 1 .. (Len(sleeps[w]) - 1) : sleeps[w][i + 1] >= sleeps[w][i]

\* C7 as amended: when every response is a 5xx, the delay after attempt a + 1
\* is at least the delay after attempt a for every a >= 1; the delay after
\* attempt 1 can be smaller than the one after attempt 0, by less than
\* RETRY_BASE_DELAY.
C7_DelaysFromSecond ==
    \A w \in WorkerIds :
        AllOf(w, {"5xx"}) =>
            \A i \in 1 .. (Len(sleeps[w]) - 1) :
                /\ i >= 2 => sleeps[w][i + 1] >= sleeps[w][i]
                /\ sleeps[w][i + 1] > sleeps[w][i] - RETRY_BASE_DELAY

\* five 5xx responses, and the second delay is shorter than the first
C7_Witness ==
    \E w \in WorkerIds :
        /\ AllOf(w, {"5xx"})
        /\ Len(sleeps[w]) = 5
        /\ sleeps[w][2] < sleeps[w][1]

C8_ClientErrorStep ==
    \A w \in WorkerIds :
        (pc[w] = "inflight" /\ resps'[w] = <<Resp("4xx", NoHeader)>>) =>
            /\ pc'[w] = "fetched"
            /\ ret'[w] = ""
            /\ nreq'[w] = 1
            /\ sleeps'[w] = <<>>
            /\ stats' = [stats EXCEPT !.skipped = @ + 1]

\* C8: when the first response of a _fetch call is a 4xx other than 429, the
\* call returns empty in that step, having sent one request and slept never;
\* skipped grows by one and no other counter changes.
C8_ClientErrorNotRetried == [][C8_ClientErrorStep]_vars

\* a _fetch call returned after a single 4xx response
C8_Witness ==
    \E w \in WorkerIds :
        /\ Returned(w)
        /\ resps[w] = <<Resp("4xx", NoHeader)>>
        /\ stats.skipped = 1

\* C9 as claimed: the sleep after a 429 at attempt a lasts what Retry-After
\* says or, without a Retry-After, RETRY_BASE_DELAY * 2^a.
C9_RateLimitSleep ==
    \A w \in WorkerIds :
        \A i \in DOMAIN sleeps[w] :
            resps[w][i].st = "429" =>
                sleeps[w][i] =
                    (IF resps[w][i].retry_after.has
                     THEN Seconds(ParseInt(resps[w][i].retry_after.text))
                     ELSE RETRY_BASE_DELAY * Pow2(i - 1))

\* the loop of w has just ended with the attempts used up
Exhausts(w) == pc[w] = "sleep" /\ pc'[w] # "sleep" /\ Len(resps[w]) = MAX_ATTEMPTS

C10_Step ==
    /\ \A w \in WorkerIds :
          (Exhausts(w) /\ ~shutdown' /\ AllOf(w, Transient)) =>
              /\ pc'[w] = "fetched"
              /\ ret'[w] = ""
              /\ stats' = [stats EXCEPT !.fetch_errors = @ + 1]
    /\ stats'.fetch_errors # stats.fetch_errors =>
          \E w \in WorkerIds :
              Exhausts(w) /\ nreq[w] = MAX_ATTEMPTS /\ AllOf(w, Transient)

\* C10: when transient faults (429, 5xx, transport error, in any mix) have used
\* up all MAX_ATTEMPTS attempts and no shutdown flag is set, _fetch returns
\* empty and fetch_errors grows by one, with no other counter changed; and
\* fetch_errors never grows before MAX_ATTEMPTS requests have failed.
C10_FetchErrorOnExhaustion == [][C10_Step]_vars

\* a _fetch call returned after a mix of all three transient faults
C10_Witness ==
    \E w \in WorkerIds :
        /\ Returned(w)
        /\ Len(resps[w]) = MAX_ATTEMPTS
        /\ {resps[w][i].st : i \in DOMAIN resps[w]} = Transient
        /\ stats.fetch_errors = 1
        /\ ~shutdown

-----------------------------------------------------------------------------
(* Properties of the shutdown flag in _fetch *)

\* w is in a _fetch call: about to enter the loop, waiting for a response, or
\* in a backoff sleep
InFetch(w) ==
    \/ pc[w] = "handle" /\ Kind(w) # AIRLINE
    \/ pc[w] \in {"inflight", "sleep"}

C11_Step ==
    \A w \in WorkerIds :
        (shutdown /\ InFetch(w)) =>
            /\ nreq'[w] <= nreq[w]
            /\ stats'.fetch_errors = stats.fetch_errors
            /\ stats'.skipped = stats.skipped
            /\ pc'[w] = "fetched" => ret'[w] = ""

\* C11 as claimed: once the shutdown flag is set before or during an attempt
\* of a _fetch call or during one of its backoff sleeps, the call sends no
\* further request, returns empty, and increments neither fetch_errors nor
\* skipped.
C11_ShutdownAbortsFetch == [][C11_Step]_vars

\* C12 as claimed: when the shutdown flag is set while a _fetch call sleeps in
\* backoff, the call is asleep for at most one polling interval longer, not
\* for the rest of the backoff, and then returns empty.
C12_SleepEndsWithinPoll ==
    \A w \in WorkerIds :
        since[w] >= 0 =>
            /\ since[w] <= DequeueTimeout
            /\ Returned(w) => ret[w] = ""

-----------------------------------------------------------------------------
(* Properties of _process_detail *)

\* the cross-references that parse_aircraft_detail extracts from the page of w
Aliases(w) == Range(site[Url(w)].aliases)

\* _process_detail of w returns in this step, after the extraction
DetailReturns(w) == pc[w] = "persist" /\ pc'[w] # "persist"

\* every cross-reference not seen before is now in the visited set and in the
\* queue as a DETAIL item, and none that was seen before is put again
CrossRefsAdmitted(w) ==
    \A a \in Aliases(w) :
        IF a \in visited
        THEN put'[a] = put[a]
        ELSE /\ a \in visited'
             /\ put'[a] = 1
             /\ \E i \in DOMAIN queue' : queue'[i] = <<a, DETAIL>>

\* C13 as claimed: when _process_detail returns after the extraction of a
\* page, every cross-reference of the page that was not seen before is in the
\* visited set and in the queue with kind DETAIL, and a second run on the same
\* page puts none of them again.
C13_CrossRefsInFrontier ==
    [][\A w \in WorkerIds : DetailReturns(w) => CrossRefsAdmitted(w)]_vars

\* C13 as amended: the same when save_aircraft_data has succeeded; when it
\* raises, the frontier is left as it was.
C13_CrossRefsAfterSave ==
    [][\A w \in WorkerIds :
          DetailReturns(w) =>
              IF stats'.saved = stats.saved + 1
              THEN CrossRefsAdmitted(w)
              ELSE UNCHANGED frontier]_vars

\* the page with two cross-references was saved twice, and the second run found
\* both in the visited set
C13_Witness ==
    /\ stats.saved >= 2
    /\ tvT[RegB] = 1 /\ tvF[RegB] >= 1 /\ put[RegB] = 1
    /\ tvT[RegC] = 1 /\ tvF[RegC] >= 1 /\ put[RegC] = 1
    /\ \E i \in DOMAIN queue : queue[i] = <<RegC, DETAIL>>

C14_Step ==
    \A w \in WorkerIds :
        DetailReturns(w) =>
            \/ /\ stats' = [stats EXCEPT !.db_errors = @ + 1]
               /\ pc'[w] = "top"
               /\ item'[w] = NoItem
               /\ UNCHANGED <<frontier, db>>
            \/ /\ stats'.saved = stats.saved + 1
               /\ stats'.db_errors = stats.db_errors

\* C14: when save_aircraft_data raises in _process_detail, db_errors grows by
\* one and no other counter changes (saved does not), nothing is enqueued or
\* stored, and the worker is back at the head of its loop, not stopped, with
\* the item marked done.
C14_PersistFaultCaught == [][C14_Step]_vars

\* a save has failed, and since then every worker has dequeued an item
C14_Witness ==
    /\ stats.db_errors >= 1
    /\ \A w \in WorkerIds : pc[w] = "handle"

C15_Step ==
    \A w \in WorkerIds :
        DetailReturns(w) =>
            /\ \A v \in WorkerIds \ {w} : pc'[v] = pc[v] /\ item'[v] = item[v]
            /\ \/ /\ stats' = [stats EXCEPT !.db_errors = @ + 1]
                  /\ db' = db
               \/ /\ stats'.saved = stats.saved + 1
                  /\ stats'.db_errors = stats.db_errors
                  /\ db' = db \cup {Url(w)}

\* C15: in any interleaving of two workers saving registrations A and B, the
\* failure of A's save changes db_errors and nothing of B: B's worker stays
\* in its save, which can still succeed, and when it does B is committed and
\* counted in saved, whatever db_errors is; the committed registrations are
\* as many as saved.
C15_PersistIsolation ==
    /\ [](\A v \in WorkerIds : pc[v] = "persist" => ENABLED PersistOk(v))
    /\ [](Cardinality(db) = stats.saved)
    /\ [][C15_Step]_vars

\* RegB, dequeued after RegA, has failed in its save while RegA is in its own
C15_Witness ==
    \E v \in WorkerIds :
        /\ pc[v] = "persist"
        /\ Url(v) = RegA
        /\ got[RegB] = 1
        /\ RegB \notin {Url(w) : w \in Handling}
        /\ stats.db_errors = 1
        /\ stats.saved = 0

-----------------------------------------------------------------------------
(* Properties of _worker *)

\* w leaves its loop in this step
Stops(w) == pc[w] # "stopped" /\ pc'[w] = "stopped"

C16_Step ==
    \A w \in WorkerIds :
        /\ Stops(w) =>
              /\ item[w] = NoItem
              /\ \/ pc[w] = "top" /\ shutdown
                 \/ pc[w] = "waiting" /\ queue = <<>>
        /\ (pc[w] = "waiting" /\ queue # <<>>) => pc'[w] \in {"waiting", "handle", "top"}

\* C16: a worker leaves its loop only while it holds no item, and only (a) at
\* the head of the loop with the shutdown flag set or (b) on the timeout of
\* its wait for the queue with the queue empty at that moment; a timeout with
\* the queue not empty takes it back to the head of the loop.
C16_StopsOnlyWhenIdle == [][C16_Step]_vars

\* without a shutdown flag a worker has stopped on its timeout while the other
\* is in a handler that has yet to enqueue
C16_Witness ==
    \E w, v \in WorkerIds :
        /\ pc[w] = "stopped"
        /\ ~shutdown
        /\ pc[v] = "inflight"
        /\ Children(site, Url(v), Kind(v)) # <<>>

\* C17 as claimed: once the shutdown flag is set, no worker takes a further
\* item from the queue.
C17_NoDequeueAfterShutdown ==
    [][\A u \in Urls : shutdown => got'[u] = got[u]]_vars

FaultCounters == <<stats.skipped, stats.fetch_errors, stats.db_errors>>

C19_Step ==
    \A w \in WorkerIds :
        /\ item[w] # NoItem => pc'[w] # "stopped"
        /\ (item[w] # NoItem /\ item'[w] = NoItem) => pc'[w] = "top"
        /\ FaultCounters' # FaultCounters => ~Stops(w)

\* C19: a worker that holds an item never stops: whichever way its handler
\* ends (a fetch that returned empty, an exception of the parser or of the
\* save caught in the handler, an exception caught in _worker), the item is
\* marked done and the worker is at the head of its loop; and no worker stops
\* in a step that counts a fault.
C19_FaultsNeverStop ==
    /\ [](\A w \in WorkerIds : pc[w] \in {"new", "top", "waiting", "stopped"} <=> item[w] = NoItem)
    /\ [][C19_Step]_vars

\* a save succeeded, the fetch of the cross-reference used up its attempts,
\* and every worker is at the head of its loop or waiting
C19_Witness ==
    /\ stats.fetch_errors = 1
    /\ stats.saved = 1
    /\ ~shutdown
    /\ \A w \in WorkerIds : pc[w] \in {"top", "waiting"}

-----------------------------------------------------------------------------
(* Properties of the counters of _fetch *)

\* the counters that _fetch writes
FetchCounters ==
    <<stats.fetched, stats.http_time_total, stats.skipped, stats.fetch_errors>>

\* the _fetch call of w returns in this step
Returns(w) == InFetch(w) /\ pc'[w] = "fetched"

C20_Step ==
    /\ \A w \in WorkerIds :
          Returns(w) =>
              IF ret'[w] = "html"
              THEN \E e \in Latency :
                      stats' = [stats EXCEPT !.fetched = @ + 1, !.http_time_total = @ + e]
              ELSE IF resps'[w] # resps[w]
              THEN stats' = [stats EXCEPT !.skipped = @ + 1]
              ELSE IF attempt'[w] = MAX_ATTEMPTS
              THEN stats' = [stats EXCEPT !.fetch_errors = @ + 1]
              ELSE shutdown /\ stats' = stats
    /\ FetchCounters' # FetchCounters => \E w \in WorkerIds : Returns(w)

\* C20: the counters fetched, http_time_total, skipped and fetch_errors change
\* only in the step in which a _fetch call returns, and then in one way:
\* fetched + 1 and the latency added when it returns the text, skipped + 1
\* when a 4xx ends it, fetch_errors + 1 when the attempts are used up, nothing
\* when it saw the shutdown flag; an attempt that is retried changes none.
C20_OneCounterPerFetch == [][C20_Step]_vars

\* a _fetch call has returned the text after three retried attempts
C20_Witness ==
    \E w \in WorkerIds :
        /\ Returned(w)
        /\ ret[w] = "html"
        /\ Len(resps[w]) = 4
        /\ stats.fetched = 1
        /\ stats.http_time_total \in Latency
        /\ stats.skipped = 0
        /\ stats.fetch_errors = 0

-----------------------------------------------------------------------------
(* Properties of the visited set *)

C21_Step ==
    /\ visited \subseteq visited'
    /\ \A u \in Urls :
          /\ (u \in visited' /\ u \notin visited) => tvT'[u] = tvT[u] + 1
          /\ tvT'[u] # tvT[u] => (u \in visited' /\ u \notin visited)
          /\ tvF'[u] # tvF[u] => (u \in visited /\ u \in visited')

\* C21: no step takes a URL out of the visited set; a URL enters it only in a
\* step in which _try_visit returned True for it, and every _try_visit call
\* answers by the membership of its URL at that moment.
C21_VisitedOnlyGrows == [][C21_Step]_vars

\* six URLs have been visited and two of them were seen a second time
C21_Witness ==
    /\ Cardinality(visited) >= 6
    /\ Cardinality({u \in Urls : tvF[u] >= 1}) >= 2

-----------------------------------------------------------------------------
(* Properties of save_aircraft_data *)

\* what the tables show of registration u: nothing, or its master row with
\* every history and alias row of its page
AllOrNothing(u) ==
    IF u \in db
    THEN {r \in rows : r[2] = u} = ChildRows(Writes(site, u))
    ELSE {r \in rows : r[2] = u} = {}

C22_Step ==
    \A w \in WorkerIds :
        (pc[w] = "persist" /\ pc'[w] # "persist") =>
            /\ tx'[w] = <<>>
            /\ IF stats'.db_errors # stats.db_errors
               THEN db' = db /\ rows' = rows
               ELSE /\ db' = db \cup {Url(w)}
                    /\ rows' = rows \cup ChildRows(Writes(site, Url(w)))

\* C22: a save_aircraft_data call that raises, at whichever of its statements,
\* leaves the tables as they were, and one that returns has committed the
\* master row with every history and alias row; so at every moment the tables
\* show of a registration either nothing or all of its rows.
C22_SaveAllOrNothing ==
    /\ [](\A u \in Urls : AllOrNothing(u))
    /\ [][C22_Step]_vars

\* a save has been rolled back after two of its rows were written, while the
\* rows of another registration are committed
C22_Witness ==
    /\ stats.db_errors >= 1
    /\ db = {RegB}
    /\ rows # {}
    /\ \E w \in WorkerIds : Url(w) = RegA /\ Len(tx[w]) >= 2

-----------------------------------------------------------------------------
(* Properties of the start of run() *)

\* the paths of registration pages
DetailPaths == {u \in Urls : u[1] = "registration"}

\* C23: a start URL whose kind its shape does not give, such as the path of a
\* registration page, makes run() abort: nothing is put into the queue and no
\* worker is created.
C23_UnresolvedStartAborts ==
    seed[1] \in DetailPaths => (Workers = {} /\ queue = <<>> /\ visited = {})

\* the kind of each start URL, read off its text
ExpectedKind(u) ==
    CASE u = Area  -> COUNTRY      \* /area/asia/airline
      [] u = Ana   -> AIRLINE      \* /airline/ana
      [] u = Jal   -> AIRLINE      \* /airline/jal/
      [] u = AnaL  -> LIST         \* /airline/ana/aircrafts
      [] u = AnaL2 -> LIST         \* /airline/ana/aircrafts?pageid=2
      [] OTHER     -> COUNTRY

C30_Step ==
    /\ (~Started /\ Started') =>
          /\ Workers = {} /\ queue = <<>> /\ visited = {}
          /\ queue' = <<seed'>>
          /\ visited' = {seed'[1]}
          /\ seed'[2] = ExpectedKind(seed'[1])
          /\ \A w \in WorkerIds : item'[w] = NoItem /\ pc'[w] \in {"new", "top"}
    /\ Started => seed' = seed

\* C30: run() puts exactly one item into the empty queue and only then creates
\* the workers; its URL is /area/{region}/airline when no start URL is given,
\* and its kind is LIST for a URL with "/airline/" and "/aircrafts", AIRLINE
\* for one with "/airline/" only, COUNTRY for every other; run() seeds once.
C30_SeedByShape == [][C30_Step]_vars

\* the run was started at an airline path with a trailing slash, and the first
\* worker has taken the seed
C30_Witness ==
    /\ seed = <<Jal, AIRLINE>>
    /\ \E w \in WorkerIds : item[w] = seed
    /\ queue = <<>>

-----------------------------------------------------------------------------
(* Properties of the handlers *)

C24_Step ==
    \A w \in WorkerIds :
        (pc[w] = "fetched" /\ ret[w] = "" /\ pc'[w] # "fetched") =>
            /\ pc'[w] = "top" /\ item'[w] = NoItem
            /\ UNCHANGED <<visited, queue, tvT, tvF, put>>
            /\ UNCHANGED <<stats, db, rows, tx>>

\* C24: a handler whose _fetch returned "" returns at once: the queue, the
\* visited set and every counter are as before, the URL is not enqueued again,
\* and neither a parser nor save_aircraft_data is called (no table changes, no
\* db_error is counted, the worker is back at the head of its loop).
C24_EmptyFetchNoEffect == [][C24_Step]_vars

\* a registration page was dequeued and its handler has returned, yet nothing
\* of it is saved and no error is counted: its fetch returned ""
C24_Witness ==
    /\ \E u \in DetailPaths : got[u] >= 1 /\ u \notin db
    /\ Handling = {}
    /\ stats.db_errors = 0
    /\ stats.skipped >= 1
    /\ stats.list_pages >= 1
    /\ ~shutdown

\* the kinds a handler of kind k may enqueue
AllowedKinds(k) ==
    CASE k = COUNTRY -> {AIRLINE}
      [] k = AIRLINE -> {LIST}
      [] k = LIST    -> {DETAIL, LIST}
      [] k = DETAIL  -> {DETAIL}

\* the items a step appends to the queue
Appended == SubSeq(queue', Len(queue) + 1, Len(queue'))

C25_Step ==
    (Started /\ Len(queue') > Len(queue)) =>
        \E w \in WorkerIds :
            /\ item[w] # NoItem /\ item'[w] = NoItem
            /\ \A i \in DOMAIN Appended : Appended[i][2] \in AllowedKinds(Kind(w))
            /\ Kind(w) = AIRLINE =>
                  Appended = << <<Append(RStrip(Url(w)), "aircrafts"), LIST>> >>
            /\ Kind(w) = LIST =>
                  Cardinality({i \in DOMAIN Appended : Appended[i][2] = LIST}) <= 1

\* C25: whatever enters the queue after the seed is appended by a returning
\* handler and has a kind that handler's kind allows: AIRLINE from COUNTRY; the
\* one item (url + "/aircrafts", LIST) from AIRLINE; DETAIL items and at most
\* one LIST item from LIST; DETAIL from DETAIL.
C25_ChildKinds == [][C25_Step]_vars

\* a country page was handled, and the queue holds what a LIST handler found:
\* registrations and the next page
C25_Witness ==
    /\ \E i \in DOMAIN queue : queue[i] = <<AnaL2, LIST>>
    /\ \E i \in DOMAIN queue : queue[i][2] = DETAIL
    /\ stats.airlines >= 1

\* the position of a _process_detail call in its sequence of steps
Rank(p) ==
    CASE p = "handle"   -> 1     \* called
      [] p = "inflight" -> 2     \* in _fetch
      [] p = "fetched"  -> 3     \* _fetch has returned
      [] p = "persist"  -> 4     \* the parser has returned, in save_aircraft_data
      [] OTHER          -> 5     \* returned

C26_Step ==
    /\ \A w \in WorkerIds :
          /\ (pc[w] \in {"handle", "inflight", "fetched", "persist"} /\ pc'[w] # pc[w]) =>
                Rank(pc'[w]) > Rank(pc[w])
          /\ (pc'[w] = "persist" /\ pc[w] # "persist") =>
                (pc[w] = "fetched" /\ ret[w] = "html" /\ tx[w] = <<>>)
          /\ tx'[w] # tx[w] => pc[w] = "persist"
    /\ <<visited, queue, tvT, tvF, put>>' # <<visited, queue, tvT, tvF, put>> =>
          \E w \in WorkerIds :
              /\ pc[w] = "persist" /\ pc'[w] # "persist"
              /\ tx[w] = Writes(site, Url(w))
              /\ Url(w) \in db'
              /\ stats'.saved = stats.saved + 1

\* C26: a _process_detail call goes through fetch, extraction, persistence and
\* enqueueing in this order: save_aircraft_data is entered only from a fetch
\* that returned a page which the parser has finished, it writes nothing
\* before, and the frontier changes only in the step in which the save has
\* written every row, commits and returns.
C26_DetailOrder == [][C26_Step]_vars

\* one registration is saved and its alias links are queued, while a second
\* handler has written all rows of its page and has not yet enqueued its link
C26_Witness ==
    /\ stats.saved >= 1
    /\ RegB \in QueueUrls
    /\ RegA \notin visited
    /\ \E w \in WorkerIds :
          /\ pc[w] = "persist"
          /\ Url(w) = RegB
          /\ tx[w] = Writes(site, RegB)
          /\ site[RegB].aliases = <<RegA>>

-----------------------------------------------------------------------------
(* Properties of the end of run() *)

\* the workers that are in a handler, a fetch or a save
InHandler == {w \in WorkerIds : pc[w] \in {"handle", "inflight", "sleep", "fetched", "persist"}}

C27_Step ==
    /\ (main = "gather" /\ main' # "gather") => AllStopped
    /\ ReporterCancelled /\ ~Reported =>
          (main' # main => (main' \in {"pool", "done"} /\ UNCHANGED <<pc, queue, stats, db>>))

\* C27: run() cancels the reporter, closes the session, closes the pool and
\* prints the final report, in this order, only after every worker has left
\* its loop; while any of this happens or has happened every worker is
\* stopped, so the pool is never closing or closed with a worker in a handler
\* or in save_aircraft_data.
C27_TeardownAfterWorkers ==
    /\ []((ReporterCancelled \/ SessionClosing \/ PoolClosing \/ Reported) =>
            (AllStopped /\ InHandler = {} /\ Handling = {}))
    /\ [][C27_Step]_vars

\* run() has returned after a crawl that saved registrations and that a signal
\* ended with items still in the queue
C27_Witness ==
    /\ Reported
    /\ stats.saved >= 1
    /\ shutdown
    /\ queue # <<>>

-----------------------------------------------------------------------------
(* Properties of the timeout branch of _worker *)

C28_Step ==
    \A w \in WorkerIds :
        (pc[w] = "waiting" /\ pc'[w] \in {"top", "stopped"}) =>
            (pc'[w] = "stopped" <=> queue = <<>>)

C29_Step ==
    /\ \A w \in WorkerIds :
          pc[w] = "stopped" => (pc'[w] = "stopped" /\ item'[w] = NoItem)
    /\ got' # got => \E w \in WorkerIds : pc[w] \in {"top", "waiting"} /\ pc'[w] = "handle"

\* a worker has stopped on its timeout, and afterwards a handler of another
\* worker has put items into the queue
Raced == ~shutdown /\ queue # <<>> /\ \E w \in WorkerIds : pc[w] = "stopped"

-----------------------------------------------------------------------------
(* Properties of save_aircraft *)

\* the calls in the log for registration reg, in order
RECURSIVE SavesOf(_, _)
SavesOf(l, reg) ==
    IF l = <<>> THEN <<>>
    ELSE IF Head(l).registration_number = reg
         THEN <<Head(l)>> \o SavesOf(Tail(l), reg)
         ELSE SavesOf(Tail(l), reg)

\* the last value of a field in a sequence of calls that is not NULL
RECURSIVE LastNonNull(_, _)
LastNonNull(l, field) ==
    IF l = <<>> THEN Null
    ELSE IF l[Len(l)][field] # Null THEN l[Len(l)][field]
         ELSE LastNonNull(SubSeq(l, 1, Len(l) - 1), field)

\* C31: after any sequence of save_aircraft calls the table holds, for each
\* registration that was saved, exactly one row, whose serial_number and
\* hex_code are each the last value saved for it that was not NULL, or NULL
\* if there was none; and no row for a registration that was never saved.
C31_UpsertKeepsNonNull ==
    \A reg \in {"JA01", "JA02"} :
        LET mine == SavesOf(log, reg)
            held == {r \in aircrafts : r.registration_number = reg}
        IN  IF mine = <<>> THEN held = {}
            ELSE /\ Cardinality(held) = 1
                 /\ \A r \in held :
                       /\ r.serial_number = LastNonNull(mine, "serial_number")
                       /\ r.hex_code = LastNonNull(mine, "hex_code")

\* a registration was saved with a serial number and a hex code, then with
\* another serial number and no hex code, then with neither
C31_Witness ==
    /\ Len(log) = 3
    /\ \A i \in 1 .. 3 : log[i].registration_number = "JA01"
    /\ log[1].serial_number = "34567" /\ log[1].hex_code = "84C068"
    /\ log[2].serial_number = "40001" /\ log[2].hex_code = Null
    /\ log[3].serial_number = Null /\ log[3].hex_code = Null
    /\ aircrafts # {}

-----------------------------------------------------------------------------
(* Properties of parse_aircraft_detail *)

Target == Norm(page.target)

\* the rows whose registration tag does not name the target, and the others
OtherRows == {i \in DOMAIN page.rows : page.rows[i].tag /\ Norm(page.rows[i].text) # Target}
OwnRows == DOMAIN page.rows \ OtherRows

AliasOf(i) == [base_registration |-> Target, alias_registration |-> Norm(page.rows[i].text)]

NoDup(q) == \A i, j \in DOMAIN q : q[i] = q[j] => i = j

\* what the rows of each part do not yield, and what the result is free of
Partitioned ==
    /\ parsed.registration_number = Target
    /\ \A a \in Range(parsed.aliases) : \E i \in OtherRows : a = AliasOf(i)
    /\ \A l \in Range(parsed.links) : \E i \in OtherRows : l = page.rows[i].href
    /\ Len(parsed.histories) =
          Cardinality({i \in OwnRows : TermStart(page.rows[i].term) # ""})
    /\ \A h \in Range(parsed.histories) :
          /\ h.registration_number = Target
          /\ h.term_start # ""
          /\ \E i \in OwnRows : h.term_start = TermStart(page.rows[i].term)
    /\ \A a \in Range(parsed.aliases) : a.base_registration # a.alias_registration
    /\ NoDup(parsed.aliases)
    /\ NoDup(parsed.links)

\* C32 as claimed: every row whose registration differs from the target
\* yields the alias (target, row registration) and its link and no history;
\* every other row yields at most one history and no alias; no alias has
\* base = alias, no alias and no link occurs twice, no history has an empty
\* term_start.
C32_RowsPartitioned ==
    parsed.done =>
        /\ Partitioned
        /\ \A i \in OtherRows :
              /\ AliasOf(i) \in Range(parsed.aliases)
              /\ page.rows[i].href # "" => page.rows[i].href \in Range(parsed.links)

\* C32: as claimed, except that a row whose registration tag has an empty
\* text yields no alias (its link is still returned), and that a row yields a
\* link only if its tag has an href.
C32_RowsPartitionedNonEmpty ==
    parsed.done =>
        /\ Partitioned
        /\ \A i \in OtherRows :
              /\ Norm(page.rows[i].text) # "" => AliasOf(i) \in Range(parsed.aliases)
              /\ Norm(page.rows[i].text) = "" => AliasOf(i) \notin Range(parsed.aliases)
              /\ page.rows[i].href # "" => page.rows[i].href \in Range(parsed.links)

\* a page with the same other registration in two rows and a row of the target
\* itself was parsed into one alias, one link and one history
C32_Witness ==
    /\ parsed.done
    /\ page.target = " ja01"
    /\ Len(page.rows) = 3
    /\ Cardinality(OtherRows) = 2
    /\ page.rows[1].text = "N703" /\ page.rows[2].text = " n703"
    /\ page.rows[1].href # "" /\ page.rows[2].href # ""
    /\ Len(parsed.aliases) = 1
    /\ Len(parsed.links) = 1
    /\ Len(parsed.histories) = 1

-----------------------------------------------------------------------------
(* Properties of the pool as a whole *)

\* C33: as long as the shutdown flag is not set, a non-empty queue or a handler
\* in progress means that some worker has not left its loop; so when all
\* workers have stopped the queue is empty, no handler holds an item, and
\* every URL that was admitted has been dequeued.
C33_LastWorkerStays ==
    (Started /\ ~shutdown) =>
        /\ (queue # <<>> \/ InHandler # {}) => \E w \in Workers : pc[w] # "stopped"
        /\ AllStopped =>
              /\ queue = <<>>
              /\ Handling = {}
              /\ \A u \in visited : got[u] = 1

\* the pool has stopped without a signal after a crawl in which a fetch was
\* skipped and a save failed
C33_Witness ==
    /\ AllStopped
    /\ ~shutdown
    /\ stats.skipped >= 1
    /\ stats.db_errors >= 1
    /\ Cardinality(visited) >= 5

-----------------------------------------------------------------------------
(* Properties of a failed registration page *)

UrlKinds == {COUNTRY, AIRLINE, LIST, DETAIL}

\* v is a link that the handler of kind k enqueues for the page of p
LinkedFrom(v, p, k) == \E i \in DOMAIN Children(site, p, k) : Children(site, p, k)[i][1] = v

C34_Step ==
    \A w \in WorkerIds :
        (Kind(w) = DETAIL /\ pc[w] \in {"fetched", "persist"} /\ pc'[w] # pc[w]
                          /\ stats'.db_errors # stats.db_errors) =>
            /\ UNCHANGED <<visited, queue, tvT, tvF, put>>
            /\ Url(w) \in visited'
            /\ Url(w) \notin db'
            /\ pc'[w] = "top"

\* C34: when parse_aircraft_detail or save_aircraft_data raises, the handler
\* returns without enqueueing any alias link of the page, and the page stays
\* in the visited set and is not dequeued a second time; so a URL is only ever
\* admitted as the seed or as a link of a page that was dequeued and, if that
\* page is a registration page, saved: a registration linked only from pages
\* whose handling raised is never discovered.
C34_FailedPageDropsLinks ==
    /\ [][C34_Step]_vars
    /\ [](\A u \in Urls : got[u] <= 1)
    /\ [](\A v \in visited \ {seed[1]} :
            \E p \in visited, k \in UrlKinds :
                /\ got[p] = 1
                /\ LinkedFrom(v, p, k)
                /\ k = DETAIL => p \in db)

\* the pool has stopped; the save of a registration page raised, and the
\* registration that only this page links to was never admitted
C34_Witness ==
    /\ AllStopped
    /\ ~shutdown
    /\ site = SiteTwo
    /\ got[RegA] = 1
    /\ RegA \notin db
    /\ RegC \notin visited
    /\ stats.db_errors = 1
    /\ stats.skipped = 0

-----------------------------------------------------------------------------
(* Properties of a fetch without content *)

C35_Step ==
    \A w \in WorkerIds :
        /\ (pc[w] = "handle" /\ pc'[w] \in {"inflight", "fetched"}) =>
              /\ got[Url(w)] = 1
              /\ Url(w) \in visited
              /\ \A v \in WorkerIds \ {w} : Url(v) # Url(w)
        /\ (pc[w] \in {"inflight", "sleep", "fetched"} /\ pc'[w] # pc[w]) =>
              (pc'[w] # "handle" /\ (pc'[w] # "top" => item'[w] = item[w]))
        /\ (pc[w] = "fetched" /\ ret[w] = "" /\ pc'[w] # pc[w]) =>
              /\ Url(w) \in visited'
              /\ queue' = queue
              /\ put' = put

\* C35: _fetch is called for a URL only by the handler of the one item that
\* was dequeued for it, and once by that handler; when it returns "" (after a
\* 4xx, after the last attempt, or because of the shutdown flag) the URL stays
\* in the visited set and is not put into the queue again: no URL is put or
\* dequeued twice.
C35_FetchedAtMostOnce ==
    /\ [][C35_Step]_vars
    /\ [](\A u \in Urls : put[u] <= 1 /\ got[u] <= put[u] /\ (put[u] = 1 => u \in visited))

\* the pool has stopped by itself after one fetch ran out of attempts: the
\* URL is in the visited set, was dequeued once and is not saved
C35_Witness ==
    /\ AllStopped
    /\ ~shutdown
    /\ stats.fetch_errors = 1
    /\ got[RegA] = 1
    /\ RegA \in visited
    /\ RegA \notin db
    /\ queue = <<>>

-----------------------------------------------------------------------------
(* Properties of the counters *)

RECURSIVE SumOver(_, _)
SumOver(f, S) ==
    IF S = {} THEN 0
    ELSE LET x == CHOOSE y \in S : TRUE IN f[x] + SumOver(f, S \ {x})

\* the number of items that queue.get has returned so far
Dequeued == SumOver(got, Urls)

\* C36: at every moment saved + db_errors <= fetched, and
\* fetched + skipped + fetch_errors <= the number of items dequeued so far
\* <= the size of the visited set.
C36_CounterBounds ==
    /\ stats.saved + stats.db_errors <= stats.fetched
    /\ stats.fetched + stats.skipped + stats.fetch_errors <= Dequeued
    /\ Dequeued <= Cardinality(visited)

\* four items were dequeued, one of them an airline page, which is not
\* fetched; of the three pages fetched one was saved and one failed to save
C36_Witness ==
    /\ Dequeued = 4
    /\ stats.fetched = 3
    /\ stats.saved = 1
    /\ stats.db_errors = 1
    /\ Handling = {}

-----------------------------------------------------------------------------
(* Properties of the sleeps of _fetch *)

\* the responses of the current _fetch call of w that are tried again
Retried(w) == {i \in DOMAIN resps[w] : resps[w][i].st \in Transient}

C37_Step ==
    stats'.fetch_errors # stats.fetch_errors =>
        \E w \in WorkerIds :
            /\ pc[w] = "sleep" /\ pc'[w] = "fetched"
            /\ ret'[w] = ""
            /\ Len(sleeps[w]) = MAX_ATTEMPTS /\ sleeps'[w] = sleeps[w]
            /\ nreq[w] = MAX_ATTEMPTS /\ nreq'[w] = MAX_ATTEMPTS

\* C37: _fetch sleeps after every attempt that failed with a 429, a 5xx or a
\* transport error, the last one included: while a request is out there were
\* as many sleeps as requests before it, in a sleep as many as requests, and
\* fetch_errors is counted and "" returned only at the end of the
\* MAX_ATTEMPTS-th sleep, after which no request is sent.
C37_SleepAfterEveryFailure ==
    /\ [][C37_Step]_vars
    /\ [](\A w \in WorkerIds :
            /\ pc[w] = "inflight" => (Len(sleeps[w]) = nreq[w] - 1 /\ Len(resps[w]) = nreq[w] - 1)
            /\ pc[w] = "sleep" => (Len(sleeps[w]) = nreq[w] /\ Len(resps[w]) = nreq[w])
            /\ pc[w] \in {"inflight", "sleep", "fetched"} =>
                  Len(sleeps[w]) = Cardinality(Retried(w)))

\* a _fetch call has returned after MAX_ATTEMPTS sleeps, the last of them of
\* eight seconds or more
C37_Witness ==
    \E w \in WorkerIds :
        /\ Returned(w)
        /\ stats.fetch_errors = 1
        /\ Len(sleeps[w]) = MAX_ATTEMPTS
        /\ sleeps[w][MAX_ATTEMPTS] >= Seconds(8)
        /\ nreq[w] = MAX_ATTEMPTS

-----------------------------------------------------------------------------
(* Properties of a 429 with a Retry-After that is no integer *)

C38_Step ==
    \A w \in WorkerIds :
        (pc[w] = "inflight" /\ pc'[w] \notin {"inflight", "sleep", "fetched"}) =>
            /\ pc'[w] = "top"
            /\ item'[w] = NoItem
            /\ nreq'[w] = 0 /\ sleeps'[w] = <<>>
            /\ stats' = stats
            /\ UNCHANGED <<visited, queue, tvT, tvF, put, db, rows, tx>>

====
